---- MODULE Spec2Model ----
(***************************************************************************)
(* A model of mcp-persistent-shell: the pexpect-backed ShellProcess        *)
(* (shell/process.py), the SessionStore and SessionManager                 *)
(* (session/store.py, session/manager.py), the per-session tool handlers   *)
(* (tools/*.py) and the default-session tools of server.py.                *)
(*                                                                         *)
(* Coroutines run on one asyncio event loop: the code between two awaits   *)
(* that really suspend is one atomic action.  The bodies handed to         *)
(* asyncio.to_thread run on worker threads, one action per pexpect call.   *)
(* The child shell is a process of its own: it takes the lines written to  *)
(* its pseudo-terminal one at a time and writes output and prompt back.    *)
(***************************************************************************)
EXTENDS Integers, Sequences, FiniteSets, TLC

\* ------------------------------------------------------------ bounds
MaxShells == 3        \* ShellProcess objects ever constructed
MaxProcs == 3         \* child processes ever spawned
MaxOps == 2           \* tool calls started in one behaviour of Spec
SeqOps == 3           \* tool calls started in one behaviour of SpecExec
SweepOps == 1         \* tool calls started in one behaviour of SpecSweep
GlobalOps == 3        \* tool calls started in one behaviour of SpecGlobal
ShellOps == 3         \* method calls started in one behaviour of SpecShell
ToolOps == 3          \* tool calls started in one behaviour of SpecTool
TermOps == 3          \* method calls started in one behaviour of SpecTerm
CreateOps == 4        \* tool calls started in one behaviour of SpecCreate
ShutOps == 3          \* calls started in one behaviour of SpecShutdown
MaxTime == 2          \* clock ticks
max_sessions == 2     \* SessionConfig.max_sessions
session_timeout == 1  \* SessionConfig.timeout, in clock ticks

\* the two concurrent callers, the one caller of SpecExec, and the cleanup task
Tasks == {1, 2}
OneTask == {1}
Sweeper == 0
working_dir == <<"ws">>
Cmds == {"cd", "slow", "exit"}

VARIABLES
  sessions,      \* SessionStore._sessions: the registered session ids
  lock,          \* SessionStore._lock: whether it is held
  waiters,       \* SessionStore._lock: the coroutines waiting for it, in order
  global_shell,  \* server.global_shell: 0 for None, else a shell
  shells,        \* the ShellProcess objects: process (0 for None), last_activity
  procs,         \* the spawned children: alive, cwd, inq, buf, run, status
  now,           \* time.time()
  pc,            \* where each coroutine (or its worker thread) stands
  loc,           \* each coroutine's locals
  ret,           \* what each coroutine's last call returned or raised
  ops,           \* tool calls still to be started
  hist,          \* history, for stating the claims: cd[s], the directory of the
                 \* last successful cd on shell s (<<>> if none, or cleared by a
                 \* reset or a terminate); returned, the execute calls returned;
                 \* fresh, the shells no call has started on since their reset
  cleanup        \* SessionManager._cleanup_task: task, 0 for None and 1 for a
                 \* task; live, the sweep tasks created and not yet finished

vars == <<sessions, lock, waiters, global_shell, shells, procs, now, pc, loc, ret, ops, hist,
         cleanup>>

\* SessionManager.__init__: no cleanup task yet
NoTask == [task |-> 0, live |-> 0]

\* ------------------------------------------------------------ SessionStore._lock
\* asyncio.Lock.acquire returns at once when the lock is free and nobody waits
\* for it; otherwise the caller joins the queue and runs again, holding the
\* lock, when the lock is free and it is the first of the queue
LockFree == lock = FALSE /\ waiters = <<>>
\* a release that wakes nobody
NoWakeUp(t) == FALSE

Woken(t) == lock = FALSE /\ waiters # <<>> /\ Head(waiters) = t

\* t joins the queue behind w and waits in `state`
Wait(t, w, state, l) ==
  /\ waiters' = Append(w, t)
  /\ pc' = [pc EXCEPT ![t] = state]
  /\ loc' = [loc EXCEPT ![t] = l]

\* ------------------------------------------------------------ the pty stream
Prompt == <<"P", "", 0>>
Out(v, t) == <<"out", v, t>>

HasMarker(buf) == \E i \in 1..Len(buf) : buf[i][1] = "P"
MarkerAt(buf) == CHOOSE i \in 1..Len(buf) :
                   buf[i][1] = "P" /\ \A j \in 1..(i-1) : buf[j][1] # "P"
Before(buf) == SubSeq(buf, 1, MarkerAt(buf) - 1)
After(buf) == SubSeq(buf, MarkerAt(buf) + 1, Len(buf))

\* int(exit_code_str): the text before the prompt as an integer; ValueError
\* (anything that is not one line holding digits) gives 0
IsIntText(before) == Len(before) = 1 /\ before[1][2] \in {"0", "1"}
ParseExitCode(before) ==
  IF IsIntText(before) THEN (IF before[1][2] = "0" THEN 0 ELSE 1) ELSE 0

\* the lines of a captured output
Text(out) == [i \in 1..Len(out) |-> out[i][2]]

\* ------------------------------------------------------------ the child shell
\* a shell spawned without cwd: it starts in another directory
SpawnedElsewhere == [alive |-> TRUE, cwd |-> "tmp", inq |-> <<>>, buf |-> <<>>,
                     run |-> <<>>, status |-> "0"]

NewProc == [alive |-> TRUE, cwd |-> working_dir[1], inq |-> <<>>, buf |-> <<>>,
            run |-> <<>>, status |-> "0"]

RunLine(P, c) ==
  CASE c[1] = "exit" -> [P EXCEPT !.alive = FALSE, !.inq = <<>>]
    [] c[1] = "slow" -> [P EXCEPT !.run = c, !.inq = Tail(@)]
    [] c[1] = "cd" -> [P EXCEPT !.cwd = "tmp", !.inq = Tail(@), !.status = "0",
                                !.buf = Append(@, Prompt)]
    [] c[1] = "false" -> [P EXCEPT !.inq = Tail(@), !.status = "1",
                                   !.buf = Append(@, Prompt)]
    [] c[1] = "pwd" -> [P EXCEPT !.inq = Tail(@), !.status = "0",
                                 !.buf = @ \o <<Out(P.cwd, c[2]), Prompt>>]
    [] OTHER -> [P EXCEPT !.inq = Tail(@), !.status = "0",
                          !.buf = @ \o <<Out(P.status, c[2]), Prompt>>]

\* the shell reads the next line written to its terminal and runs it
ShellRun(p) ==
  /\ p \in 1..Len(procs)
  /\ procs[p].alive /\ procs[p].run = <<>> /\ procs[p].inq # <<>>
  /\ procs' = [procs EXCEPT ![p] = RunLine(procs[p], Head(procs[p].inq))]
  /\ UNCHANGED <<sessions, lock, waiters, global_shell, shells, now, pc, loc, ret, ops, hist>>
  /\ UNCHANGED cleanup

\* a long-running command ends: its output, then the prompt
ShellFinish(p) ==
  /\ p \in 1..Len(procs)
  /\ procs[p].alive /\ procs[p].run # <<>>
  /\ procs' = [procs EXCEPT ![p].run = <<>>, ![p].status = "0",
                 ![p].buf = @ \o <<Out("s", procs[p].run[2]), Prompt>>]
  /\ UNCHANGED <<sessions, lock, waiters, global_shell, shells, now, pc, loc, ret, ops, hist>>
  /\ UNCHANGED cleanup

\* ------------------------------------------------------------ ShellProcess
NewShell == [process |-> 0, last_activity |-> now]

Alive(sh, s) == sh[s].process # 0 /\ procs[sh[s].process].alive

\* is_alive without the isalive() probe of the process
HasProcess(s) == shells[s].process # 0

is_alive(s) == Alive(shells, s)
idle_time(s) == now - shells[s].last_activity

NoLoc == [op |-> "none", stage |-> "none", from |-> "", sh |-> 0, cmd |-> "", call |-> 0,
          prior |-> {}, exp |-> <<>>, proc |-> 0,
          out |-> <<>>, err |-> "", code |-> 0, marker |-> "none", ids |-> <<>>,
          seen |-> {}, kept |-> {}]
NoRet == [kind |-> "none", op |-> "none", from |-> "", status |-> "", exit_code |-> 0,
          stdout |-> <<>>, stderr |-> "", marker |-> "none", val |-> <<>>,
          exp |-> <<>>, sh |-> 0, call |-> 0, prior |-> {}]

Raised(op, s, msg) == [NoRet EXCEPT !.kind = "raised", !.op = op, !.sh = s,
                                    !.stderr = msg]
Created(s) == [NoRet EXCEPT !.kind = "created", !.op = "create", !.sh = s]
NotFound(op, s) == [NoRet EXCEPT !.kind = "notfound", !.op = op, !.sh = s,
                      !.status = "error", !.exit_code = -1,
                      !.stderr = "Session not found or expired"]

\* terminate returned; `from` is the state it was called in: "running",
\* "dead" (a process that had exited) or "none" (no process)
Terminated(s, from) == [NoRet EXCEPT !.kind = "terminated", !.op = "terminate",
                                     !.sh = s, !.from = from]

\* execute's guard (process.py 65-66) and terminate's (151), as the first
\* step of the engine call `op` on shell s: the worker thread that starts,
\* or the RuntimeError
Dispatch(sh, op, s, c, k) ==
  IF op = "reset"
  THEN [pc |-> IF Alive(sh, s) THEN "t_send" ELSE "spawn",
        loc |-> [NoLoc EXCEPT !.op = op, !.stage = "reset", !.sh = s,
                   !.from = IF Alive(sh, s) THEN "running" ELSE "terminated"],
        ret |-> NoRet]
  ELSE IF op = "terminate"
  THEN [pc |-> IF Alive(sh, s) THEN "t_send" ELSE "idle",
        loc |-> IF Alive(sh, s)
                THEN [NoLoc EXCEPT !.op = op, !.stage = "terminate", !.sh = s,
                                   !.from = "running"]
                ELSE NoLoc,
        ret |-> IF Alive(sh, s) THEN NoRet
                ELSE Terminated(s, IF sh[s].process = 0 THEN "none" ELSE "dead")]
  ELSE IF Alive(sh, s)
       THEN [pc |-> "x_send",
             loc |-> [NoLoc EXCEPT !.op = op, !.sh = s, !.exp = hist.cd[s],
                        !.call = k, !.prior = hist.returned,
                        !.from = IF s \in hist.fresh THEN "reset" ELSE "",
                        !.cmd = IF op = "getcwd" THEN "pwd" ELSE c],
             ret |-> NoRet]
       ELSE [pc |-> "idle", loc |-> NoLoc,
             ret |-> Raised(op, s, "Shell process is not running")]

\* the history when the engine call `op` starts on shell s
Called(op, s) == [hist EXCEPT !.cd[s] = IF op = "reset" THEN <<>> ELSE @,
                              !.fresh = @ \ {s}]

\* ---- start: _spawn_shell on a worker thread, then the assignment
SpawnThread(t) ==
  /\ pc[t] = "spawn"
  /\ Len(procs) < MaxProcs
  /\ procs' = Append(procs, NewProc)
  /\ loc' = [loc EXCEPT ![t].proc = Len(procs) + 1]
  /\ pc' = [pc EXCEPT ![t] = "started"]
  /\ UNCHANGED <<sessions, lock, waiters, global_shell, shells, now, ret, ops, hist>>
  /\ UNCHANGED cleanup

StartDone(t) ==
  /\ pc[t] = "started"
  /\ LET l == loc[t]
         sh == [shells EXCEPT ![l.sh] = [process |-> l.proc, last_activity |-> now]]
         d == Dispatch(sh, l.op, global_shell, l.cmd, l.call)
     IN /\ shells' = sh
        /\ CASE l.stage = "create" ->
                  \* create_session goes on to store.create
                  IF LockFree
                  THEN /\ sessions' = sessions \cup {l.sh}
                       /\ pc' = [pc EXCEPT ![t] = "idle"]
                       /\ loc' = [loc EXCEPT ![t] = NoLoc]
                       /\ ret' = [ret EXCEPT ![t] = Created(l.sh)]
                       /\ UNCHANGED <<waiters, hist>>
                  ELSE /\ Wait(t, waiters, "w_create", l)
                       /\ UNCHANGED <<sessions, ret, hist>>
             [] l.stage = "reset" ->
                  /\ pc' = [pc EXCEPT ![t] = "idle"]
                  /\ loc' = [loc EXCEPT ![t] = NoLoc]
                  /\ ret' = [ret EXCEPT ![t] = [NoRet EXCEPT !.kind = "reset", !.op = "reset",
                                                            !.from = l.from, !.sh = l.sh]]
                  /\ hist' = [hist EXCEPT !.fresh = @ \cup {l.sh}]
                  /\ UNCHANGED <<sessions, waiters>>
             [] OTHER ->
                  \* ensure_shell returns global_shell as it is now; the tool goes on
                  /\ pc' = [pc EXCEPT ![t] = d.pc]
                  /\ loc' = [loc EXCEPT ![t] = d.loc]
                  /\ ret' = [ret EXCEPT ![t] = d.ret]
                  /\ hist' = Called(l.op, global_shell)
                  /\ UNCHANGED <<sessions, waiters>>
  /\ UNCHANGED <<lock, global_shell, procs, now, ops>>
  /\ UNCHANGED cleanup

\* ---- execute: _execute_command on a worker thread
\* a timeout reported as the command's success
TimeoutAsSuccess(l, buf) == [l EXCEPT !.out = buf, !.err = "", !.code = 0,
                                      !.marker = "matched"]

ThreadError(l) == [l EXCEPT !.out = <<>>, !.err = "internal", !.code = -1, !.marker = "error"]
TimeoutResult(l, buf) == [l EXCEPT !.out = buf, !.err = "timed out", !.code = -1,
                                   !.marker = "timeout"]
EofResult(l) == [l EXCEPT !.out = <<>>, !.err = "terminated", !.code = -1, !.marker = "eof"]

\* self.process.sendline(line): the line reaches the shell's terminal
SendLine(t, line, next) ==
  LET l == loc[t]
      p == shells[l.sh].process
  IN \/ /\ p = 0
        /\ loc' = [loc EXCEPT ![t] = ThreadError(l)]
        /\ pc' = [pc EXCEPT ![t] = "x_return"]
        /\ UNCHANGED procs
     \/ /\ p # 0 /\ procs[p].alive
        /\ procs' = [procs EXCEPT ![p].inq = Append(@, <<line, l.call>>)]
        /\ pc' = [pc EXCEPT ![t] = next]
        /\ UNCHANGED loc
     \/ /\ p # 0 /\ ~procs[p].alive
        /\ \/ /\ pc' = [pc EXCEPT ![t] = next]
              /\ UNCHANGED loc
           \/ /\ loc' = [loc EXCEPT ![t] = ThreadError(l)]
              /\ pc' = [pc EXCEPT ![t] = "x_return"]
        /\ UNCHANGED procs

XSend(t) ==
  /\ pc[t] = "x_send"
  /\ SendLine(t, loc[t].cmd, "x_expect")
  /\ UNCHANGED <<sessions, lock, waiters, global_shell, shells, now, ret, ops, hist>>
  /\ UNCHANGED cleanup

XExpect(t) ==
  /\ pc[t] = "x_expect"
  /\ LET l == loc[t]
         p == shells[l.sh].process
     IN \/ /\ p = 0
           /\ loc' = [loc EXCEPT ![t] = ThreadError(l)]
           /\ pc' = [pc EXCEPT ![t] = "x_return"]
           /\ UNCHANGED procs
        \/ /\ p # 0 /\ HasMarker(procs[p].buf)
           /\ loc' = [loc EXCEPT ![t].out = Before(procs[p].buf)]
           /\ procs' = [procs EXCEPT ![p].buf = After(@)]
           /\ pc' = [pc EXCEPT ![t] = "x_rc_send"]
        \/ /\ p # 0 /\ ~HasMarker(procs[p].buf) /\ procs[p].alive
           /\ loc' = [loc EXCEPT ![t] = TimeoutResult(l, procs[p].buf)]
           /\ pc' = [pc EXCEPT ![t] = "x_return"]
           /\ UNCHANGED procs
        \/ /\ p # 0 /\ ~HasMarker(procs[p].buf) /\ ~procs[p].alive
           /\ loc' = [loc EXCEPT ![t] = EofResult(l)]
           /\ pc' = [pc EXCEPT ![t] = "x_return"]
           /\ UNCHANGED procs
  /\ UNCHANGED <<sessions, lock, waiters, global_shell, shells, now, ret, ops, hist>>
  /\ UNCHANGED cleanup

XRcSend(t) ==
  /\ pc[t] = "x_rc_send"
  /\ SendLine(t, "echo $?", "x_rc_expect")
  /\ UNCHANGED <<sessions, lock, waiters, global_shell, shells, now, ret, ops, hist>>
  /\ UNCHANGED cleanup

XRcExpect(t) ==
  /\ pc[t] = "x_rc_expect"
  /\ LET l == loc[t]
         p == shells[l.sh].process
     IN \/ /\ p = 0
           /\ loc' = [loc EXCEPT ![t] = ThreadError(l)]
           /\ UNCHANGED procs
        \/ /\ p # 0 /\ HasMarker(procs[p].buf)
           /\ loc' = [loc EXCEPT ![t].err = "", ![t].marker = "matched",
                         ![t].code = ParseExitCode(Before(procs[p].buf))]
           /\ procs' = [procs EXCEPT ![p].buf = After(@)]
        \/ /\ p # 0 /\ ~HasMarker(procs[p].buf) /\ procs[p].alive
           /\ loc' = [loc EXCEPT ![t] = TimeoutResult(l, procs[p].buf)]
           /\ UNCHANGED procs
        \/ /\ p # 0 /\ ~HasMarker(procs[p].buf) /\ ~procs[p].alive
           /\ loc' = [loc EXCEPT ![t] = EofResult(l)]
           /\ UNCHANGED procs
  /\ pc' = [pc EXCEPT ![t] = "x_return"]
  /\ UNCHANGED <<sessions, lock, waiters, global_shell, shells, now, ret, ops, hist>>
  /\ UNCHANGED cleanup

\* a status that ignores the exit code
StatusSuccess(code) == "success"

\* the CommandResult (process.py 108-134)
StatusOf(code) == IF code = 0 THEN "success" ELSE "error"
CommandResult(l) ==
  [NoRet EXCEPT !.kind = "cmd", !.op = l.op, !.call = l.call, !.prior = l.prior,
                !.status = StatusOf(l.code),
                !.exit_code = l.code,
                !.stdout = l.out, !.stderr = l.err, !.marker = l.marker, !.sh = l.sh]

\* get_cwd (process.py 136-141) from the result of its pwd probe
CwdOf(r) == IF r.status = "success" THEN Text(r.stdout) ELSE working_dir

XReturn(t) ==
  /\ pc[t] = "x_return"
  /\ LET l == loc[t]
         r == CommandResult(l)
     IN /\ shells' = IF l.marker = "error" THEN shells
                     ELSE [shells EXCEPT ![l.sh].last_activity = now]
        /\ ret' = [ret EXCEPT ![t] =
                     IF l.op = "getcwd"
                     THEN [NoRet EXCEPT !.kind = "cwd", !.op = l.op, !.val = CwdOf(r),
                             !.sh = l.sh, !.from = l.from,
                             !.exp = IF hist.cd[l.sh] # <<>> THEN l.exp ELSE <<>>]
                     ELSE r]
        /\ hist' = [hist EXCEPT
                     !.returned = @ \cup {l.call},
                     !.cd[l.sh] = IF l.op = "execute" /\ l.cmd = "cd" /\ r.status = "success"
                                  THEN <<"tmp">> ELSE @]
  /\ pc' = [pc EXCEPT ![t] = "idle"]
  /\ loc' = [loc EXCEPT ![t] = NoLoc]
  /\ UNCHANGED <<sessions, lock, waiters, global_shell, procs, now, ops>>
  /\ UNCHANGED cleanup

\* ---- terminate: _terminate on a worker thread, then self.process = None
TermSend(t) ==
  /\ pc[t] = "t_send"
  /\ LET p == shells[loc[t].sh].process
     IN IF p = 0
        THEN /\ pc' = [pc EXCEPT ![t] = "t_done"]
             /\ UNCHANGED procs
        ELSE /\ pc' = [pc EXCEPT ![t] = "t_final"]
             /\ procs' = IF procs[p].alive
                         THEN [procs EXCEPT ![p].inq = Append(@, <<"exit", 0>>)]
                         ELSE procs
  /\ UNCHANGED <<sessions, lock, waiters, global_shell, shells, now, loc, ret, ops, hist>>
  /\ UNCHANGED cleanup

\* the wait for EOF is over (seen, or timed out): finally, the forced kill
TermFinal(t) ==
  /\ pc[t] = "t_final"
  /\ LET p == shells[loc[t].sh].process
     IN IF p = 0
        THEN /\ pc' = [pc EXCEPT ![t] = "t_raise"]
             /\ UNCHANGED procs
        ELSE /\ pc' = [pc EXCEPT ![t] = "t_done"]
             /\ procs' = [procs EXCEPT ![p].alive = FALSE, ![p].inq = <<>>,
                            ![p].run = <<>>]
  /\ UNCHANGED <<sessions, lock, waiters, global_shell, shells, now, loc, ret, ops, hist>>
  /\ UNCHANGED cleanup

\* ---- SessionStore.delete and what its callers do with the answer
\* the caller of store.delete goes on: delete_session returns the answer,
\* get_session returns None (the handler: not found)
AfterDelete(t, op, s, found, raised) ==
  /\ pc' = [pc EXCEPT ![t] = "idle"]
  /\ loc' = [loc EXCEPT ![t] = NoLoc]
  /\ ret' = [ret EXCEPT ![t] =
        IF raised THEN Raised(op, s, "terminate")
        ELSE IF op = "delete"
        THEN [NoRet EXCEPT !.kind = "deleted", !.op = op, !.sh = s,
                           !.val = IF found THEN <<"true">> ELSE <<"false">>]
        ELSE [NotFound(op, s) EXCEPT !.from = "evicted"]]

\* store.delete(s) by task t once it has the lock, w waiting behind it: up to
\* the await that suspends (terminate's worker thread) or to the return
StoreDelete(t, op, s, w) ==
  /\ waiters' = w
  /\ IF s \in sessions
     THEN /\ sessions' = sessions \ {s}
          /\ hist' = [hist EXCEPT !.cd[s] = <<>>]
          /\ IF is_alive(s)
             THEN /\ lock' = TRUE
                  /\ pc' = [pc EXCEPT ![t] = "t_send"]
                  /\ loc' = [loc EXCEPT ![t] = [NoLoc EXCEPT !.op = op, !.stage = "delete",
                                                             !.sh = s]]
                  /\ ret' = [ret EXCEPT ![t] = NoRet]
             ELSE /\ UNCHANGED lock
                  /\ AfterDelete(t, op, s, TRUE, FALSE)
     ELSE /\ AfterDelete(t, op, s, FALSE, FALSE)
          /\ UNCHANGED <<sessions, lock, hist>>

\* a store.delete that waited for the lock
DeleteWoken(t) ==
  /\ pc[t] = "w_delete" /\ Woken(t)
  /\ StoreDelete(t, loc[t].op, loc[t].sh, Tail(waiters))
  /\ UNCHANGED <<global_shell, shells, procs, now, ops>>
  /\ UNCHANGED cleanup

\* ---- the periodic sweep (_cleanup_loop, _cleanup_expired_sessions)
RECURSIVE SetToSeq(_)
SetToSeq(S) == IF S = {} THEN <<>>
               ELSE LET m == CHOOSE x \in S : \A y \in S : x <= y
                    IN <<m>> \o SetToSeq(S \ {m})

\* whether the sweep evicts the session it looks at
Expired(s) == idle_time(s) > session_timeout
Evicts(s) == Expired(s) \/ ~is_alive(s)

\* the for loop from the store.get (at = "get") or the store.delete of the
\* first of ids, up to the await that suspends it: a wait for the lock
\* ("sw_get", "sw_delete"), terminate's worker thread ("t_send", holding the
\* lock), or the end of the loop ("sleep").  S is the registry, w the queue of
\* the lock, granted whether a release handed the lock to the sweep.
RECURSIVE SweepRun(_, _, _, _, _, _, _)
SweepRun(at, granted, ids, S, seen, kept, w) ==
  LET r == [pc |-> "sleep", ids |-> ids, S |-> S, seen |-> seen, kept |-> kept,
            w |-> w, sh |-> 0, lock |-> FALSE]
  IN IF ids = <<>> THEN r
     ELSE IF ~granted /\ w # <<>>
     THEN [r EXCEPT !.pc = IF at = "get" THEN "sw_get" ELSE "sw_delete",
                    !.w = Append(w, Sweeper)]
     ELSE LET s == Head(ids)
          IN IF at = "get"
             THEN IF s \notin S
                  THEN SweepRun("get", FALSE, Tail(ids), S, seen, kept, w)
                  ELSE IF Evicts(s)
                  THEN SweepRun("delete", FALSE, ids, S, seen \cup {s}, kept, w)
                  ELSE SweepRun("get", FALSE, Tail(ids), S, seen, kept \cup {s}, w)
             ELSE IF s \in S /\ is_alive(s)
                  THEN [r EXCEPT !.pc = "t_send", !.S = S \ {s}, !.sh = s,
                                 !.lock = TRUE]
                  ELSE SweepRun("get", FALSE, Tail(ids), S \ {s}, seen, kept, w)

\* the state the sweep is left in
SweepApply(r) ==
  /\ pc' = [pc EXCEPT ![Sweeper] = r.pc]
  /\ loc' = [loc EXCEPT ![Sweeper] =
               [NoLoc EXCEPT !.op = "sweep", !.ids = r.ids, !.seen = r.seen,
                             !.kept = r.kept, !.sh = r.sh,
                             !.stage = IF r.pc = "sleep" THEN "done"
                                       ELSE IF r.pc = "t_send" THEN "delete"
                                       ELSE "none"]]
  /\ sessions' = r.S
  /\ waiters' = r.w
  /\ lock' = r.lock
  /\ hist' = [hist EXCEPT !.cd = [s \in 1..MaxShells |->
                                   IF s \in sessions \ r.S THEN <<>> ELSE hist.cd[s]]]

\* the sleep is over: get_all_ids, and the loop
SweepStart ==
  /\ pc[Sweeper] = "sleep"
  /\ IF LockFree
     THEN SweepApply(SweepRun("get", FALSE, SetToSeq(sessions), sessions, {}, {}, <<>>))
     ELSE /\ Wait(Sweeper, waiters, "w_ids", [NoLoc EXCEPT !.op = "sweep"])
          /\ UNCHANGED <<sessions, lock, hist>>
  /\ UNCHANGED <<global_shell, shells, procs, now, ret, ops>>
  /\ UNCHANGED cleanup

\* the sweep waited for the lock, at get_all_ids, store.get or store.delete
SweepWoken ==
  /\ pc[Sweeper] \in {"w_ids", "sw_get", "sw_delete"} /\ Woken(Sweeper)
  /\ LET l == loc[Sweeper]
         w == Tail(waiters)
     IN SweepApply(
          CASE pc[Sweeper] = "w_ids" ->
                 SweepRun("get", FALSE, SetToSeq(sessions), sessions, {}, {}, w)
            [] pc[Sweeper] = "sw_get" ->
                 SweepRun("get", TRUE, l.ids, sessions, l.seen, l.kept, w)
            [] OTHER ->
                 SweepRun("delete", TRUE, l.ids, sessions, l.seen, l.kept, w))
  /\ UNCHANGED <<global_shell, shells, procs, now, ret, ops>>
  /\ UNCHANGED cleanup

Tick ==
  /\ now < MaxTime
  /\ now' = now + 1
  /\ UNCHANGED <<sessions, lock, waiters, global_shell, shells, procs, pc, loc, ret, ops, hist>>
  /\ UNCHANGED cleanup

\* ---- the cleanup task's life: start_cleanup_task, stop_cleanup_task, shutdown
\* start_cleanup_task without its test of self._cleanup_task
TaskAlways == TRUE

\* `self._cleanup_task is None` (manager.py 70)
TaskMissing == cleanup.task = 0

\* start_cleanup_task: a new sweep task unless one is recorded
StartCleanup ==
  /\ ops > 0
  /\ ops' = ops - 1
  /\ IF TaskMissing
     THEN \* the new task sleeps; a thread that a cancelled task left behind
          \* runs on beside it
          /\ cleanup' = [task |-> 1, live |-> cleanup.live + 1]
          /\ pc' = [pc EXCEPT ![Sweeper] = IF @ = "off" THEN "sleep" ELSE @]
          /\ UNCHANGED loc
     ELSE UNCHANGED <<cleanup, pc, loc>>
  /\ UNCHANGED <<sessions, lock, waiters, global_shell, shells, procs, now, ret, hist>>

\* the waiters of the lock without the cleanup task
RECURSIVE Without(_, _)
Without(w, t) == IF w = <<>> THEN <<>>
                 ELSE IF Head(w) = t THEN Without(Tail(w), t)
                 ELSE <<Head(w)>> \o Without(Tail(w), t)

\* the for loop of shutdown from the store.delete of the first of ids, up to
\* the await that suspends it: a wait for the lock ("sd_delete"), terminate's
\* worker thread ("t_send", holding the lock), or the return ("idle")
RECURSIVE ShutdownRun(_, _, _, _, _)
ShutdownRun(t, granted, ids, S, w) ==
  LET r == [pc |-> "idle", ids |-> ids, S |-> S, w |-> w, sh |-> 0, lock |-> FALSE]
  IN IF ids = <<>> THEN r
     ELSE IF ~granted /\ w # <<>>
     THEN [r EXCEPT !.pc = "sd_delete", !.w = Append(w, t)]
     ELSE LET s == Head(ids)
          IN IF s \in S /\ is_alive(s)
             THEN [r EXCEPT !.pc = "t_send", !.S = S \ {s}, !.sh = s, !.lock = TRUE]
             ELSE ShutdownRun(t, FALSE, Tail(ids), S \ {s}, w)

\* the state shutdown is left in
ShutdownApply(t, r) ==
  /\ pc' = [pc EXCEPT ![t] = r.pc]
  /\ loc' = [loc EXCEPT ![t] =
               IF r.pc = "idle" THEN NoLoc
               ELSE [NoLoc EXCEPT !.op = "shutdown", !.stage = "shutdown",
                                  !.ids = r.ids, !.sh = r.sh]]
  /\ ret' = [ret EXCEPT ![t] =
               IF r.pc = "idle"
               THEN [NoRet EXCEPT !.kind = "shutdown", !.op = "shutdown"]
               ELSE NoRet]
  /\ sessions' = r.S
  /\ waiters' = r.w
  /\ lock' = r.lock
  /\ hist' = [hist EXCEPT !.cd = [s \in 1..MaxShells |->
                                   IF s \in sessions \ r.S THEN <<>> ELSE hist.cd[s]]]

\* shutdown after stop_cleanup_task: get_all_ids, and the loop
ShutdownIds(t) ==
  IF LockFree
  THEN ShutdownApply(t, ShutdownRun(t, FALSE, SetToSeq(sessions), sessions, <<>>))
  ELSE /\ Wait(t, waiters, "sd_ids", [NoLoc EXCEPT !.op = "shutdown"])
       /\ ret' = [ret EXCEPT ![t] = NoRet]
       /\ UNCHANGED <<sessions, lock, hist>>

\* shutdown: stop_cleanup_task cancels the sweep task and awaits it.  The
\* CancelledError reaches the task at the await it is suspended in; a
\* store.delete it is in releases the lock on the way out; the worker thread
\* of a terminate it awaited runs on, with nobody awaiting it.
Shutdown(t) ==
  /\ pc[t] = "idle" /\ ops > 0
  /\ ops' = ops - 1
  /\ IF TaskMissing
     THEN /\ ShutdownIds(t)
          /\ UNCHANGED cleanup
     ELSE LET at == pc[Sweeper]
              \* the task is in store.delete, awaiting terminate's thread
              indelete == loc[Sweeper].stage = "delete"
              running == at \in {"t_send", "t_final"}
              left == loc[Sweeper].stage = "cancelled"
          IN /\ cleanup' = [cleanup EXCEPT !.live = @ - 1]
             /\ pc' = [pc EXCEPT ![t] = "stopping",
                                 ![Sweeper] = IF running \/ left THEN at ELSE "off"]
             /\ loc' = [loc EXCEPT ![t] = [NoLoc EXCEPT !.op = "shutdown"],
                                   ![Sweeper] = IF running \/ left
                                                THEN [@ EXCEPT !.stage = "cancelled"]
                                                ELSE NoLoc]
             /\ lock' = IF indelete THEN FALSE ELSE lock
             /\ waiters' = Without(waiters, Sweeper)
             /\ ret' = [ret EXCEPT ![t] = NoRet]
             /\ UNCHANGED <<sessions, hist>>
  /\ UNCHANGED <<global_shell, shells, procs, now>>

\* the cancelled task has ended: stop_cleanup_task forgets it and returns,
\* and shutdown goes on
StopDone(t) ==
  /\ pc[t] = "stopping"
  /\ cleanup' = [cleanup EXCEPT !.task = 0]
  /\ ShutdownIds(t)
  /\ UNCHANGED <<global_shell, shells, procs, now, ops>>

\* shutdown waited for the lock, at get_all_ids or store.delete
ShutdownWoken(t) ==
  /\ pc[t] \in {"sd_ids", "sd_delete"} /\ Woken(t)
  /\ ShutdownApply(t,
       IF pc[t] = "sd_ids"
       THEN ShutdownRun(t, FALSE, SetToSeq(sessions), sessions, Tail(waiters))
       ELSE ShutdownRun(t, TRUE, loc[t].ids, sessions, Tail(waiters)))
  /\ UNCHANGED <<global_shell, shells, procs, now, ops, cleanup>>

\* ---- terminate is over: self.process = None, and the caller goes on
TermDone(t) ==
  /\ pc[t] = "t_done"
  /\ shells' = IF loc[t].stage = "cancelled" THEN shells
               ELSE [shells EXCEPT ![loc[t].sh].process = 0]
  /\ CASE loc[t].stage = "reset" ->
            /\ pc' = [pc EXCEPT ![t] = "spawn"]
            /\ UNCHANGED <<sessions, lock, waiters, loc, ret, hist>>
       [] loc[t].stage = "terminate" ->
            /\ pc' = [pc EXCEPT ![t] = "idle"]
            /\ loc' = [loc EXCEPT ![t] = NoLoc]
            /\ ret' = [ret EXCEPT ![t] = Terminated(loc[t].sh, loc[t].from)]
            /\ UNCHANGED <<sessions, lock, waiters, hist>>
       [] loc[t].stage = "cancelled" ->
            \* the thread of a cancelled terminate ends; nobody takes its result
            /\ pc' = [pc EXCEPT ![t] = IF cleanup.live = 0 THEN "off" ELSE "sleep"]
            /\ loc' = [loc EXCEPT ![t] = NoLoc]
            /\ UNCHANGED <<sessions, lock, waiters, ret, hist>>
       [] loc[t].stage = "shutdown" ->
            \* store.delete releases the lock; shutdown takes the next id
            ShutdownApply(t, ShutdownRun(t, FALSE, Tail(loc[t].ids), sessions, waiters))
       [] loc[t].stage = "delete" /\ t = Sweeper ->
            \* store.delete releases the lock; the loop takes the next id
            /\ SweepApply(SweepRun("get", FALSE, Tail(loc[t].ids), sessions,
                                   loc[t].seen, loc[t].kept, waiters))
            /\ UNCHANGED ret
       [] OTHER ->
            /\ lock' = FALSE
            /\ AfterDelete(t, loc[t].op, loc[t].sh, TRUE, FALSE)
            /\ UNCHANGED <<sessions, waiters, hist>>
  /\ UNCHANGED <<global_shell, procs, now, ops>>
  /\ UNCHANGED cleanup

\* _terminate raised (self.process was None in its finally): the exception
\* leaves terminate, and store.delete's `async with` releases the lock; the
\* cleanup loop logs it and sleeps again
TermRaise(t) ==
  /\ pc[t] = "t_raise"
  /\ CASE loc[t].stage \in {"reset", "terminate"} ->
            /\ pc' = [pc EXCEPT ![t] = "idle"]
            /\ loc' = [loc EXCEPT ![t] = NoLoc]
            /\ ret' = [ret EXCEPT ![t] = Raised(loc[t].stage, loc[t].sh, "terminate")]
            /\ UNCHANGED lock
       [] loc[t].stage = "cancelled" ->
            /\ pc' = [pc EXCEPT ![t] = IF cleanup.live = 0 THEN "off" ELSE "sleep"]
            /\ loc' = [loc EXCEPT ![t] = NoLoc]
            /\ UNCHANGED <<lock, ret>>
       [] loc[t].stage = "shutdown" ->
            /\ lock' = FALSE
            /\ pc' = [pc EXCEPT ![t] = "idle"]
            /\ loc' = [loc EXCEPT ![t] = NoLoc]
            /\ ret' = [ret EXCEPT ![t] = Raised("shutdown", loc[t].sh, "terminate")]
       [] loc[t].stage = "delete" /\ t = Sweeper ->
            /\ lock' = FALSE
            /\ pc' = [pc EXCEPT ![t] = "sleep"]
            /\ loc' = [loc EXCEPT ![t].stage = "aborted"]
            /\ UNCHANGED ret
       [] OTHER ->
            /\ lock' = FALSE
            /\ AfterDelete(t, loc[t].op, loc[t].sh, TRUE, TRUE)
  /\ UNCHANGED <<sessions, waiters, global_shell, shells, procs, now, ops, hist>>
  /\ UNCHANGED cleanup

\* ---- SessionManager and the per-session tool handlers
\* a capacity check that lets one session too many in
OverCapacity == Cardinality(sessions) > max_sessions

\* create_session's capacity check (manager.py 33)
AtCapacity == Cardinality(sessions) >= max_sessions

\* create_session once store.count has the lock: the capacity check, the new
\* ShellProcess, up to shell.start()
CountBody(t, w) ==
  /\ waiters' = w
  /\ IF AtCapacity
     THEN /\ ret' = [ret EXCEPT ![t] =
                       Raised("create", 0, "Maximum sessions limit reached")]
          /\ pc' = [pc EXCEPT ![t] = "idle"]
          /\ loc' = [loc EXCEPT ![t] = NoLoc]
          /\ UNCHANGED shells
     ELSE /\ shells' = Append(shells, NewShell)
          /\ pc' = [pc EXCEPT ![t] = "spawn"]
          /\ loc' = [loc EXCEPT ![t] = [NoLoc EXCEPT !.op = "create", !.stage = "create",
                                                     !.sh = Len(shells) + 1]]
          /\ ret' = [ret EXCEPT ![t] = NoRet]

CreateSession(t) ==
  /\ pc[t] = "idle" /\ ops > 0
  /\ Len(shells) + Cardinality({u \in Tasks : pc[u] = "w_count"}) < MaxShells
  /\ ops' = ops - 1
  /\ IF LockFree
     THEN CountBody(t, <<>>)
     ELSE /\ Wait(t, waiters, "w_count", [NoLoc EXCEPT !.op = "create"])
          /\ ret' = [ret EXCEPT ![t] = NoRet]
          /\ UNCHANGED shells
  /\ UNCHANGED <<sessions, lock, global_shell, procs, now, hist>>
  /\ UNCHANGED cleanup

\* a store.count that waited for the lock
CountWoken(t) ==
  /\ pc[t] = "w_count" /\ Woken(t)
  /\ CountBody(t, Tail(waiters))
  /\ UNCHANGED <<sessions, lock, global_shell, procs, now, ops, hist>>
  /\ UNCHANGED cleanup

\* a store.create that waited for the lock, and create_session's return
CreateWoken(t) ==
  /\ pc[t] = "w_create" /\ Woken(t)
  /\ waiters' = Tail(waiters)
  /\ sessions' = sessions \cup {loc[t].sh}
  /\ ret' = [ret EXCEPT ![t] = Created(loc[t].sh)]
  /\ pc' = [pc EXCEPT ![t] = "idle"]
  /\ loc' = [loc EXCEPT ![t] = NoLoc]
  /\ UNCHANGED <<lock, global_shell, shells, procs, now, ops, hist>>
  /\ UNCHANGED cleanup

\* get_session without the liveness probe
GetSessionNoProbe(s) == IF s \notin sessions THEN "absent" ELSE "found"

\* get_session's answer for session id s: "absent", "dead" (to be evicted) or "found"
GetSession(s) ==
  IF s \notin sessions THEN "absent"
  ELSE IF ~is_alive(s) THEN "dead" ELSE "found"

\* handle_execute_command, handle_get_cwd, handle_reset_session once store.get
\* has the lock, w waiting behind it: get_session, then the engine call on the
\* shell it returned; k is the call's number
GetBody(t, op, s, c, k, w) ==
  LET g == GetSession(s)
      d == Dispatch(shells, op, s, c, k)
  IN CASE g = "absent" ->
            /\ ret' = [ret EXCEPT ![t] = NotFound(op, s)]
            /\ pc' = [pc EXCEPT ![t] = "idle"]
            /\ loc' = [loc EXCEPT ![t] = NoLoc]
            /\ waiters' = w
            /\ UNCHANGED <<sessions, lock, hist>>
       [] g = "dead" ->
            \* store.delete: at once when nobody waits for the lock
            IF w = <<>>
            THEN StoreDelete(t, op, s, w)
            ELSE /\ Wait(t, w, "w_delete", [NoLoc EXCEPT !.op = op, !.sh = s])
                 /\ ret' = [ret EXCEPT ![t] = NoRet]
                 /\ UNCHANGED <<sessions, lock, hist>>
       [] OTHER ->
            /\ pc' = [pc EXCEPT ![t] = d.pc]
            /\ loc' = [loc EXCEPT ![t] = d.loc]
            /\ ret' = [ret EXCEPT ![t] = d.ret]
            /\ hist' = Called(op, s)
            /\ waiters' = w
            /\ UNCHANGED <<sessions, lock>>

HandleCall(t, op, s, c) ==
  /\ pc[t] = "idle" /\ ops > 0
  /\ ops' = ops - 1
  /\ IF LockFree
     THEN GetBody(t, op, s, c, ops, <<>>)
     ELSE /\ Wait(t, waiters, "w_get",
                  [NoLoc EXCEPT !.op = op, !.sh = s, !.cmd = c, !.call = ops])
          /\ ret' = [ret EXCEPT ![t] = NoRet]
          /\ UNCHANGED <<sessions, lock, hist>>
  /\ UNCHANGED <<global_shell, shells, procs, now>>
  /\ UNCHANGED cleanup

\* a store.get that waited for the lock
GetWoken(t) ==
  /\ pc[t] = "w_get" /\ Woken(t)
  /\ GetBody(t, loc[t].op, loc[t].sh, loc[t].cmd, loc[t].call, Tail(waiters))
  /\ UNCHANGED <<global_shell, shells, procs, now, ops>>
  /\ UNCHANGED cleanup

\* delete_session
DeleteSession(t, s) ==
  /\ pc[t] = "idle" /\ ops > 0
  /\ ops' = ops - 1
  /\ IF LockFree
     THEN StoreDelete(t, "delete", s, <<>>)
     ELSE /\ Wait(t, waiters, "w_delete", [NoLoc EXCEPT !.op = "delete", !.sh = s])
          /\ ret' = [ret EXCEPT ![t] = NoRet]
          /\ UNCHANGED <<sessions, lock, hist>>
  /\ UNCHANGED <<global_shell, shells, procs, now>>
  /\ UNCHANGED cleanup

\* ---- the default-session tools of server.py
\* ensure_shell, then the tool's engine call on the shell it returned
GlobalCall(t, op, c) ==
  /\ pc[t] = "idle" /\ ops > 0
  /\ ops' = ops - 1
  /\ IF global_shell = 0 \/ ~is_alive(global_shell)
     THEN /\ Len(shells) < MaxShells
          /\ shells' = Append(shells, NewShell)
          /\ global_shell' = Len(shells) + 1
          /\ pc' = [pc EXCEPT ![t] = "spawn"]
          /\ loc' = [loc EXCEPT ![t] = [NoLoc EXCEPT !.op = op, !.stage = "ensure",
                                          !.cmd = c, !.call = ops,
                                          !.sh = Len(shells) + 1]]
          /\ ret' = [ret EXCEPT ![t] = NoRet]
          /\ UNCHANGED hist
     ELSE LET d == Dispatch(shells, op, global_shell, c, ops)
          IN /\ pc' = [pc EXCEPT ![t] = d.pc]
             /\ loc' = [loc EXCEPT ![t] = d.loc]
             /\ ret' = [ret EXCEPT ![t] = d.ret]
             /\ hist' = Called(op, global_shell)
             /\ UNCHANGED <<shells, global_shell>>
  /\ UNCHANGED <<sessions, lock, waiters, procs, now>>
  /\ UNCHANGED cleanup

\* ---- the security gate in front of execute (validator.py 22-57, with an
\* allowlist or a blocked pattern configured)
Blocked == {"rm"}

\* a validator that is not enabled
ValidateNothing(c) == TRUE

validate_command(c) == c \notin Blocked

SecurityRejected(op, s) ==
  [NoRet EXCEPT !.kind = "rejected", !.op = op, !.sh = s, !.status = "error",
                !.exit_code = -1, !.stderr = "Security validation failed"]

\* the tool returns the rejection at once
Reject(t, s) ==
  /\ pc[t] = "idle" /\ ops > 0
  /\ ops' = ops - 1
  /\ ret' = [ret EXCEPT ![t] = SecurityRejected("execute", s)]
  /\ UNCHANGED <<sessions, lock, waiters, global_shell, shells, procs, now, pc, loc, hist>>
  /\ UNCHANGED cleanup

\* handle_execute_command (tools/execute_command.py 11-48)
ExecuteCommand(t, s, c) ==
  IF validate_command(c) THEN HandleCall(t, "execute", s, c) ELSE Reject(t, s)

\* execute_command of server.py (78-111)
GlobalExecute(t, c) ==
  IF validate_command(c) THEN GlobalCall(t, "execute", c) ELSE Reject(t, 0)

\* ---- a caller of one ShellProcess's methods: execute, get_cwd, reset
ShellCall(t, op, s, c) ==
  /\ pc[t] = "idle" /\ ops > 0
  /\ ops' = ops - 1
  /\ LET d == Dispatch(shells, op, s, c, ops)
     IN /\ pc' = [pc EXCEPT ![t] = d.pc]
        /\ loc' = [loc EXCEPT ![t] = d.loc]
        /\ ret' = [ret EXCEPT ![t] = d.ret]
        /\ hist' = Called(op, s)
  /\ UNCHANGED <<sessions, lock, waiters, global_shell, shells, procs, now>>
  /\ UNCHANGED cleanup

\* ------------------------------------------------------------ specifications
Ops == {"execute", "getcwd", "reset"}

\* the shell and the worker threads, whoever started them
Engine ==
  \/ \E p \in 1..MaxProcs : ShellRun(p) \/ ShellFinish(p)
  \/ \E t \in Tasks \cup {Sweeper} :
        \/ SpawnThread(t) \/ StartDone(t)
        \/ XSend(t) \/ XExpect(t) \/ XRcSend(t) \/ XRcExpect(t) \/ XReturn(t)
        \/ TermSend(t) \/ TermFinal(t) \/ TermDone(t) \/ TermRaise(t)

\* the state after construction and one create_session: the registry holds
\* session 1, whose shell is fresh; n is the number of calls the clients may
\* start
InitWith(n) ==
  /\ sessions = {1}
  /\ lock = FALSE
  /\ waiters = <<>>
  /\ global_shell = 0
  /\ shells = <<[process |-> 1, last_activity |-> 0]>>
  /\ procs = <<NewProc>>
  /\ now = 0
  /\ pc = [t \in Tasks \cup {Sweeper} |-> IF t \in Tasks THEN "idle" ELSE "off"]
  /\ loc = [t \in Tasks \cup {Sweeper} |-> NoLoc]
  /\ ret = [t \in Tasks \cup {Sweeper} |-> NoRet]
  /\ ops = n
  /\ hist = [cd |-> [s \in 1..MaxShells |-> <<>>], returned |-> {}, fresh |-> {}]
  /\ cleanup = NoTask

\* ---- the session manager and the per-session handlers
Init == InitWith(MaxOps)
Next ==
  \/ Engine
  \/ \E t \in Tasks :
        \/ CreateSession(t) \/ CountWoken(t) \/ CreateWoken(t)
        \/ GetWoken(t) \/ DeleteWoken(t)
        \/ \E s \in 1..Len(shells) : DeleteSession(t, s)
        \/ \E s \in 1..Len(shells), op \in Ops, c \in Cmds : HandleCall(t, op, s, c)
Spec == Init /\ [][Next]_vars

\* ---- one client: execute and get_cwd calls on one session, one after the other
InitExec == InitWith(SeqOps)
NextExec ==
  \/ \E p \in 1..MaxProcs : ShellRun(p) \/ ShellFinish(p)
  \/ \E t \in OneTask :
        \/ XSend(t) \/ XExpect(t) \/ XRcSend(t) \/ XRcExpect(t) \/ XReturn(t)
        \/ \E s \in 1..Len(shells), op \in {"execute", "getcwd"}, c \in Cmds :
              HandleCall(t, op, s, c)
SpecExec == InitExec /\ [][NextExec]_vars

\* ---- the cleanup task beside the handlers, with the clock: the state after
\* two create_session calls
InitSweep ==
  /\ sessions = {1, 2}
  /\ lock = FALSE
  /\ waiters = <<>>
  /\ global_shell = 0
  /\ shells = <<[process |-> 1, last_activity |-> 0], [process |-> 2, last_activity |-> 0]>>
  /\ procs = <<NewProc, NewProc>>
  /\ now = 0
  /\ pc = [t \in Tasks \cup {Sweeper} |-> IF t \in Tasks THEN "idle" ELSE "sleep"]
  /\ loc = [t \in Tasks \cup {Sweeper} |-> NoLoc]
  /\ ret = [t \in Tasks \cup {Sweeper} |-> NoRet]
  /\ ops = SweepOps
  /\ hist = [cd |-> [s \in 1..MaxShells |-> <<>>], returned |-> {}, fresh |-> {}]
  /\ cleanup = [task |-> 1, live |-> 1]
NextSweep ==
  \/ Engine
  \/ \E t \in Tasks :
        \/ GetWoken(t) \/ DeleteWoken(t)
        \/ \E s \in 1..Len(shells) : DeleteSession(t, s)
        \/ \E s \in 1..Len(shells), op \in Ops, c \in Cmds : HandleCall(t, op, s, c)
  \/ SweepStart \/ SweepWoken
  \/ Tick
SpecSweep == InitSweep /\ [][NextSweep]_vars

\* ---- the default-session tools, with commands that end at once: the state
\* after lifespan's ensure_shell
InitGlobal ==
  /\ sessions = {}
  /\ lock = FALSE
  /\ waiters = <<>>
  /\ global_shell = 1
  /\ shells = <<[process |-> 1, last_activity |-> 0]>>
  /\ procs = <<NewProc>>
  /\ now = 0
  /\ pc = [t \in Tasks \cup {Sweeper} |-> IF t \in Tasks THEN "idle" ELSE "off"]
  /\ loc = [t \in Tasks \cup {Sweeper} |-> NoLoc]
  /\ ret = [t \in Tasks \cup {Sweeper} |-> NoRet]
  /\ ops = GlobalOps
  /\ hist = [cd |-> [s \in 1..MaxShells |-> <<>>], returned |-> {}, fresh |-> {}]
  /\ cleanup = NoTask
NextGlobal ==
  \/ \E p \in 1..MaxProcs : ShellRun(p)
  \/ \E t \in Tasks :
        \/ SpawnThread(t) \/ StartDone(t)
        \/ XSend(t) \/ XExpect(t) \/ XRcSend(t) \/ XRcExpect(t) \/ XReturn(t)
        \/ TermSend(t) \/ TermFinal(t) \/ TermDone(t) \/ TermRaise(t)
        \/ \E op \in Ops, c \in Cmds \ {"slow"} : GlobalCall(t, op, c)
SpecGlobal == InitGlobal /\ [][NextGlobal]_vars

\* ---- one ShellProcess, started, and one caller of its methods
InitShell ==
  /\ sessions = {}
  /\ lock = FALSE
  /\ waiters = <<>>
  /\ global_shell = 0
  /\ shells = <<[process |-> 1, last_activity |-> 0]>>
  /\ procs = <<NewProc>>
  /\ now = 0
  /\ pc = [t \in Tasks \cup {Sweeper} |-> IF t \in OneTask THEN "idle" ELSE "off"]
  /\ loc = [t \in Tasks \cup {Sweeper} |-> NoLoc]
  /\ ret = [t \in Tasks \cup {Sweeper} |-> NoRet]
  /\ ops = ShellOps
  /\ hist = [cd |-> [s \in 1..MaxShells |-> <<>>], returned |-> {}, fresh |-> {}]
  /\ cleanup = NoTask
NextShell ==
  \/ \E p \in 1..MaxProcs : ShellRun(p) \/ ShellFinish(p)
  \/ \E t \in OneTask :
        \/ SpawnThread(t) \/ StartDone(t)
        \/ XSend(t) \/ XExpect(t) \/ XRcSend(t) \/ XRcExpect(t) \/ XReturn(t)
        \/ TermSend(t) \/ TermFinal(t) \/ TermDone(t)
        \/ \E op \in Ops, c \in Cmds : ShellCall(t, op, 1, c)
SpecShell == InitShell /\ [][NextShell]_vars

\* ---- one ShellProcess, never started or started, and one caller of execute
\* and terminate
InitTerm ==
  /\ sessions = {}
  /\ lock = FALSE
  /\ waiters = <<>>
  /\ global_shell = 0
  /\ \/ shells = <<[process |-> 0, last_activity |-> 0]>> /\ procs = <<>>
     \/ shells = <<[process |-> 1, last_activity |-> 0]>> /\ procs = <<NewProc>>
  /\ now = 0
  /\ pc = [t \in Tasks \cup {Sweeper} |-> IF t \in OneTask THEN "idle" ELSE "off"]
  /\ loc = [t \in Tasks \cup {Sweeper} |-> NoLoc]
  /\ ret = [t \in Tasks \cup {Sweeper} |-> NoRet]
  /\ ops = TermOps
  /\ hist = [cd |-> [s \in 1..MaxShells |-> <<>>], returned |-> {}, fresh |-> {}]
  /\ cleanup = NoTask
NextTerm ==
  \/ \E p \in 1..MaxProcs : ShellRun(p) \/ ShellFinish(p)
  \/ \E t \in OneTask :
        \/ XSend(t) \/ XExpect(t) \/ XRcSend(t) \/ XRcExpect(t) \/ XReturn(t)
        \/ TermSend(t) \/ TermFinal(t) \/ TermDone(t)
        \/ \E op \in {"execute", "terminate"}, c \in Cmds : ShellCall(t, op, 1, c)
SpecTerm == InitTerm /\ [][NextTerm]_vars

\* ---- one client that creates sessions one after the other and runs
\* commands in them, from the empty registry; nothing deletes a session
InitCreate ==
  /\ sessions = {}
  /\ lock = FALSE
  /\ waiters = <<>>
  /\ global_shell = 0
  /\ shells = <<>>
  /\ procs = <<>>
  /\ now = 0
  /\ pc = [t \in Tasks \cup {Sweeper} |-> IF t \in OneTask THEN "idle" ELSE "off"]
  /\ loc = [t \in Tasks \cup {Sweeper} |-> NoLoc]
  /\ ret = [t \in Tasks \cup {Sweeper} |-> NoRet]
  /\ ops = CreateOps
  /\ hist = [cd |-> [s \in 1..MaxShells |-> <<>>], returned |-> {}, fresh |-> {}]
  /\ cleanup = NoTask
NextCreate ==
  \/ \E p \in 1..MaxProcs : ShellRun(p)
  \/ \E t \in OneTask :
        \/ CreateSession(t) \/ SpawnThread(t) \/ StartDone(t)
        \/ XSend(t) \/ XExpect(t) \/ XRcSend(t) \/ XRcExpect(t) \/ XReturn(t)
        \/ \E s \in 1..Len(shells), op \in {"execute", "getcwd"} :
              HandleCall(t, op, s, "cd")
SpecCreate == InitCreate /\ [][NextCreate]_vars

\* ---- the lifespan's coroutine beside one client and the cleanup task: the
\* state after start_cleanup_task and two create_session calls
InitShutdown ==
  /\ sessions = {1, 2}
  /\ lock = FALSE
  /\ waiters = <<>>
  /\ global_shell = 0
  /\ shells = <<[process |-> 1, last_activity |-> 0], [process |-> 2, last_activity |-> 0]>>
  /\ procs = <<NewProc, NewProc>>
  /\ now = 0
  /\ pc = [t \in Tasks \cup {Sweeper} |-> IF t \in Tasks THEN "idle" ELSE "sleep"]
  /\ loc = [t \in Tasks \cup {Sweeper} |-> NoLoc]
  /\ ret = [t \in Tasks \cup {Sweeper} |-> NoRet]
  /\ ops = ShutOps
  /\ hist = [cd |-> [s \in 1..MaxShells |-> <<>>], returned |-> {}, fresh |-> {}]
  /\ cleanup = [task |-> 1, live |-> 1]
NextShutdown ==
  \/ \E p \in 1..MaxProcs : ShellRun(p)
  \/ \E t \in Tasks \cup {Sweeper} :
        \/ SpawnThread(t) \/ StartDone(t)
        \/ TermSend(t) \/ TermFinal(t) \/ TermDone(t) \/ TermRaise(t)
  \/ \E t \in OneTask :
        \/ GetWoken(t)
        \/ \E s \in 1..Len(shells) : HandleCall(t, "reset", s, "")
  \/ \E t \in Tasks \ OneTask : Shutdown(t) \/ StopDone(t) \/ ShutdownWoken(t)
  \/ SweepStart \/ SweepWoken
  \/ Tick
SpecShutdown == InitShutdown /\ [][NextShutdown]_vars

\* ---- the lifespan's coroutine and the cleanup task, no client: calls of
\* start_cleanup_task and shutdown
InitCleanup == InitShutdown
NextCleanup ==
  \/ \E p \in 1..MaxProcs : ShellRun(p)
  \/ \E t \in (Tasks \ OneTask) \cup {Sweeper} :
        TermSend(t) \/ TermFinal(t) \/ TermDone(t)
  \/ \E t \in Tasks \ OneTask : Shutdown(t) \/ StopDone(t)
  \/ StartCleanup
  \/ SweepStart
  \/ Tick
SpecCleanup == InitCleanup /\ [][NextCleanup]_vars

\* ---- one client of the execute tools, per-session and default, with failing
\* and rejected commands
ToolCmds == {"cd", "false", "exit"} \cup Blocked
InitTool == InitWith(ToolOps)
NextTool ==
  \/ \E p \in 1..MaxProcs : ShellRun(p)
  \/ \E t \in OneTask :
        \/ SpawnThread(t) \/ StartDone(t)
        \/ XSend(t) \/ XExpect(t) \/ XRcSend(t) \/ XRcExpect(t) \/ XReturn(t)
        \/ \E c \in ToolCmds : ExecuteCommand(t, 1, c) \/ GlobalExecute(t, c)
SpecTool == InitTool /\ [][NextTool]_vars

\* ------------------------------------------------------------ the claims
All == Tasks \cup {Sweeper}

\* the worker thread of t is between two uses of its shell's process handle
Driving(t) == pc[t] \in {"x_send", "x_expect", "x_rc_send", "x_rc_expect",
                         "t_send", "t_final"}

\* C1: at most one operation drives a session's process handle at any time:
\* two execute calls, or an execute and a reset or terminate, on the same
\* session are never both in flight on its pseudo-terminal.
C1_OneDriver ==
  \A t \in All, u \in All :
    (t # u /\ Driving(t) /\ Driving(u)) => loc[t].sh # loc[u].sh

\* C2: the stdout of a returned execute holds only the output of its own
\* command: no line of it was produced by the command of a call that was in
\* flight at the same time (a call that had not returned when this one began).
C2_OwnOutput ==
  \A t \in Tasks :
    (ret[t].kind = "cmd" /\ ret[t].op = "execute") =>
       \A i \in 1..Len(ret[t].stdout) :
          ret[t].stdout[i][3] \in {ret[t].call} \cup ret[t].prior

\* C3: in every reachable state the registry holds at most max_sessions
\* sessions.
C3_Capacity == Cardinality(sessions) <= max_sessions

\* C4: get_session returns None for an absent id; for a present id whose
\* process is dead it evicts the entry and returns None; the handle it returns
\* is registered and alive.  A handler goes on to the engine only with a live
\* registered shell; its get_session ends without a shell only for an id that
\* was absent or whose process was dead, and then the id is absent and the
\* answer is "not found".
C4_GetSession ==
  [][\A t \in Tasks :
       /\ (pc[t] \in {"idle", "w_get"} /\ pc'[t] \in {"x_send", "t_send", "spawn"}
             /\ loc'[t].op \in Ops /\ loc'[t].stage # "delete")
             => LET s == loc'[t].sh
                IN s \in sessions /\ is_alive(s) /\ s \in sessions' /\ Alive(shells', s)
       /\ (pc[t] \in {"idle", "w_get"} /\ pc'[t] \notin {"x_send", "w_get"}
             /\ ret'[t].op \in Ops /\ ret'[t] # ret[t])
             => LET s == ret'[t].sh
                IN /\ s \notin sessions \/ ~is_alive(s)
                   /\ s \notin sessions'
                   /\ ret'[t].kind = "notfound"
       /\ (pc[t] \in {"idle", "w_get"} /\ pc'[t] = "w_delete" /\ loc'[t].op \in Ops)
             => LET s == loc'[t].sh
                IN s \in sessions /\ ~is_alive(s)
       /\ (pc[t] = "w_delete" /\ pc'[t] # "w_delete") => loc[t].sh \notin sessions'
       /\ (loc[t].stage = "delete" /\ loc[t].op \in Ops /\ pc[t] # "idle" /\ pc'[t] = "idle")
             => (ret'[t].kind = "notfound" /\ ret'[t].sh \notin sessions')
    ]_vars

\* a handler was answered "not found" for a session get_session evicted
C4_Witness ==
  \E t \in Tasks :
    /\ ret[t].kind = "notfound" /\ ret[t].from = "evicted"
    /\ ret[t].sh \notin sessions /\ ~is_alive(ret[t].sh)

\* C5: when no prompt marker is seen within the timeout, execute returns
\* status error, exit code -1 and a stderr naming the timeout, and the
\* timeout leaves the process as it is, alive; a process ends only in the
\* kill of terminate (reset included) or by running an exit line itself.
C5_Timeout ==
  [][/\ \A t \in Tasks :
          LET s == loc[t].sh
              p == shells[s].process
          IN /\ (pc[t] \in {"x_expect", "x_rc_expect"} /\ pc'[t] # pc[t] /\ p # 0
                   /\ procs[p].alive /\ ~HasMarker(procs[p].buf))
                   => /\ pc'[t] = "x_return"
                      /\ loc'[t].code = -1 /\ loc'[t].err = "timed out"
                      /\ loc'[t].marker = "timeout"
                      /\ procs' = procs /\ shells' = shells
             /\ (pc[t] = "x_return" /\ pc'[t] = "idle" /\ loc[t].marker = "timeout"
                   /\ loc[t].op = "execute")
                   => /\ ret'[t].kind = "cmd" /\ ret'[t].status = "error"
                      /\ ret'[t].exit_code = -1 /\ ret'[t].stderr = "timed out"
                      /\ procs' = procs
                      /\ shells'[s].process = shells[s].process
     /\ \A q \in 1..Len(procs) :
          (procs[q].alive /\ ~procs'[q].alive)
             => \/ \E u \in All : pc[u] = "t_final" /\ pc'[u] = "t_done"
                                     /\ shells[loc[u].sh].process = q
                \/ procs[q].inq # <<>> /\ Head(procs[q].inq)[1] = "exit"
    ]_vars

\* an execute returned its timeout result and the shell is alive
C5_Witness ==
  \E t \in Tasks :
    /\ ret[t].kind = "cmd" /\ ret[t].marker = "timeout" /\ ret[t].exit_code = -1
    /\ is_alive(ret[t].sh)

\* C6: when the process is dead while execute waits for a marker, the call
\* returns an error result with exit code -1 (stderr "terminated" when the
\* first wait ends so): never a result with a real exit code.
C6_DeathIsError ==
  [][\A t \in Tasks :
       LET p == shells[loc[t].sh].process
       IN (pc[t] \in {"x_expect", "x_rc_expect"} /\ pc'[t] = "x_return" /\ p # 0
             /\ ~procs[p].alive)
            => loc'[t].code = -1
    ]_vars

\* C7: an execute_command call to a valid session returns a result object:
\* no exception leaves it.
C7_NoException ==
  \A t \in Tasks : ~(ret[t].kind = "raised" /\ ret[t].op = "execute")

\* C8: after a cd that succeeded on a session, a later get_cwd on it returns
\* that directory, as long as no reset and no terminate came between.
C8_CwdPersists ==
  \A t \in Tasks :
    (ret[t].kind = "cwd" /\ ret[t].exp # <<>>) => ret[t].val = ret[t].exp

\* C9: reset, from the running or the terminated state, completes with
\* is_alive() true and a fresh process in the configured working directory,
\* and the get_cwd that follows it returns that directory, whatever cd was
\* made before.
C9_Reset ==
  /\ [](\A t \in Tasks :
          (ret[t].kind = "cwd" /\ ret[t].from = "reset") => ret[t].val = working_dir)
  /\ [][\A t \in Tasks :
          (pc[t] = "started" /\ loc[t].stage = "reset" /\ pc'[t] # "started")
             => LET s == loc[t].sh
                    p == shells'[s].process
                IN /\ ret'[t].kind = "reset"
                   /\ p # 0 /\ procs'[p].alive
                   /\ procs'[p].cwd = working_dir[1]
                   /\ procs'[p].buf = <<>> /\ procs'[p].inq = <<>>
       ]_vars

\* a get_cwd that followed a reset returned the configured directory, and the
\* process the reset ended had changed to another one
C9_Witness ==
  \E t \in Tasks :
    /\ ret[t].kind = "cwd" /\ ret[t].from = "reset" /\ ret[t].val = working_dir
    /\ is_alive(ret[t].sh)
    /\ \E q \in 1..Len(procs) : ~procs[q].alive /\ procs[q].cwd = "tmp"

\* C10: when a sweep completes, every session it found expired or dead is
\* absent from the registry and has no live process, and every session it
\* found live and fresh, and that still is, is present.
C10_Sweep ==
  [][(pc'[Sweeper] = "sleep" /\ loc'[Sweeper].stage = "done" /\ loc'[Sweeper] # loc[Sweeper])
       => /\ \A s \in loc'[Sweeper].seen : s \notin sessions' /\ ~Alive(shells', s)
          /\ \A s \in loc'[Sweeper].kept :
                (Alive(shells', s) /\ now - shells'[s].last_activity <= session_timeout)
                   => s \in sessions'
    ]_vars

\* C17: the security gate comes before every execute: a rejected command is
\* never written to a shell, and the call that carried it returns an error
\* result with exit code -1, raises nothing, and leaves the registry, every
\* shell object (last_activity included) and every process unchanged.
C17_Gate ==
  /\ [](\A p \in 1..Len(procs) :
          /\ \A i \in 1..Len(procs[p].inq) : procs[p].inq[i][1] \notin Blocked
          /\ procs[p].run # <<>> => procs[p].run[1] \notin Blocked)
  /\ [][\A t \in Tasks, c \in Blocked :
          (ExecuteCommand(t, 1, c) \/ GlobalExecute(t, c))
             => /\ ret'[t].kind = "rejected"
                /\ ret'[t].status = "error" /\ ret'[t].exit_code = -1
                /\ pc'[t] = "idle"
                /\ UNCHANGED <<sessions, global_shell, shells, procs, hist>>]_vars

\* a rejected call has returned, after an accepted command ran on the session
C17_Witness ==
  \E t \in Tasks : /\ ret[t].kind = "rejected"
                    /\ hist.returned # {}
                    /\ procs[1].cwd = "tmp"

\* C20: a CommandResult returned by execute has status "success" exactly
\* when its exit code is 0, and "error" for every other exit code, -1 included.
C20_Status ==
  \A t \in Tasks :
    ret[t].kind = "cmd" =>
       /\ ret[t].status \in {"success", "error"}
       /\ ret[t].status = "success" <=> ret[t].exit_code = 0

\* a command that failed with exit code 1 has returned
C20_Witness ==
  \E t \in Tasks : ret[t].kind = "cmd" /\ ret[t].exit_code = 1 /\ ret[t].status = "error"

\* C16: get_cwd is never a hard failure: whatever the state of the session
\* (running, probe timed out, process dead or terminated) the call returns a
\* directory, the probe's or the configured one, and raises nothing.
C16_CwdNeverRaises ==
  \A t \in Tasks :
    /\ ~(ret[t].kind = "raised" /\ ret[t].op = "getcwd")
    /\ (ret[t].op = "getcwd" /\ ret[t].kind # "none") => ret[t].kind = "cwd"

\* C14: terminate is idempotent: called on a session that was never started,
\* is running, whose process has exited, or that was terminated before, it
\* raises nothing and leaves is_alive() false.
C14_Terminate ==
  \A t \in Tasks :
    (ret[t].op = "terminate" /\ ret[t].kind # "none")
       => ret[t].kind = "terminated" /\ ~is_alive(ret[t].sh)

\* a terminate has returned on a session that an earlier terminate had
\* stopped
C14_Witness ==
  \E t \in Tasks :
    /\ ret[t].kind = "terminated" /\ ret[t].from = "none"
    /\ Len(procs) = 1 /\ ~procs[1].alive

\* C15: with no deletion in between, create_session calls made one after the
\* other succeed while the registry holds fewer than max_sessions sessions,
\* and each adds its session; the call made when it holds max_sessions fails
\* with the capacity error and has no side effect: the registry is
\* unchanged, no ShellProcess is made and no process is spawned.
C15_CapacityError ==
  /\ [](\A t \in Tasks :
          (ret[t].kind = "raised" /\ ret[t].op = "create")
             => Cardinality(sessions) = max_sessions)
  /\ [](Cardinality(sessions) <= max_sessions)
  /\ [][\A t \in Tasks :
          CreateSession(t)
             => IF Cardinality(sessions) < max_sessions
                THEN pc'[t] = "spawn" /\ ret'[t].kind # "raised"
                ELSE /\ ret'[t].kind = "raised" /\ ret'[t].op = "create"
                     /\ pc'[t] = "idle"
                     /\ UNCHANGED <<sessions, shells, procs>>]_vars
  /\ [][\A t \in Tasks :
          (pc[t] = "started" /\ loc[t].stage = "create" /\ StartDone(t))
             => /\ ret'[t].kind = "created"
                /\ loc[t].sh \notin sessions
                /\ sessions' = sessions \cup {loc[t].sh}
                /\ Alive(shells', loc[t].sh)]_vars

\* max_sessions creates succeeded and the next one was refused
C15_Witness ==
  \E t \in Tasks :
    /\ ret[t].kind = "raised" /\ ret[t].op = "create"
    /\ Cardinality(sessions) = max_sessions
    /\ Len(shells) = max_sessions /\ Len(procs) = max_sessions

\* C13: delete removes each entry once: a delete of a present id terminates
\* the session's process before the entry leaves the registry, and answers
\* true; a delete of an id that is absent (a repeated or a concurrent delete
\* that lost) answers false, terminates nothing and leaves the registry as
\* it is.
C13_DeleteOnce ==
  /\ [][\A s \in sessions : s \notin sessions' => ~is_alive(s)]_vars
  /\ [][\A t \in Tasks :
          (ret'[t] # ret[t] /\ ret'[t].kind = "deleted")
             => LET s == ret'[t].sh
                IN /\ s \notin sessions'
                   /\ ~Alive(shells', s)
                   /\ ret'[t].val = <<"false">>
                        => /\ s \notin sessions
                           /\ UNCHANGED <<sessions, procs>>]_vars

\* C19: an error raised while the sweep evicts one session does not abort the
\* sweep: the sessions after it in the sweep's list that are expired or dead
\* are still examined and evicted before the sweep ends.
C19_SweepGoesOn ==
  [][(pc[Sweeper] = "t_raise" /\ pc'[Sweeper] = "sleep")
        => \A i \in 2..Len(loc[Sweeper].ids) :
              LET s == loc[Sweeper].ids[i]
              IN s \in sessions' => ~Evicts(s)]_vars

\* C11: when shutdown returns, the sweep task is stopped, the registry is
\* empty, and no shell process spawned through the manager is alive, whatever
\* was registered or in flight when shutdown began.
C11_Shutdown ==
  [][\A t \in Tasks :
       (ret'[t].kind = "shutdown" /\ ret[t].kind # "shutdown")
          => /\ cleanup'.task = 0 /\ cleanup'.live = 0
             /\ sessions' = {}
             /\ \A p \in 1..Len(procs') : ~procs'[p].alive]_vars

\* C12: when stop_cleanup_task returns, the sweep is quiescent: no sweep
\* iteration runs, no eviction the sweep started is still in progress, and
\* no session is half-evicted (out of the registry with its process alive or
\* still being terminated).
C12_StopQuiescent ==
  [][\A t \in Tasks :
       (pc[t] = "stopping" /\ pc'[t] # "stopping")
          => /\ pc[Sweeper] = "off"
             /\ \A s \in 1..Len(shells) :
                  (s \notin sessions /\ loc[Sweeper].sh = s) => ~is_alive(s)]_vars

\* C18: start_cleanup_task is idempotent: there is never more than one sweep
\* task, and a call made while a task is recorded creates none and changes
\* nothing.
C18_OneSweepTask ==
  /\ [](cleanup.live <= 1)
  /\ [][(StartCleanup /\ cleanup.task # 0)
          => UNCHANGED <<cleanup, sessions, lock, waiters, shells, procs, pc, loc, ret>>]_vars

\* a second start_cleanup_task was called while the sweep task was evicting
C18_Witness ==
  /\ cleanup.task = 1 /\ cleanup.live = 1
  /\ ops < ShutOps
  /\ pc[Sweeper] \in {"t_send", "t_final"}
  /\ \A t \in Tasks : pc[t] = "idle" /\ ret[t].kind = "none"

\* C21: framing stays in sync after a timeout: an execute that returns with
\* its marker matched returns what its own command produced.  Every line of
\* its stdout was written for this call, and the shell had taken this call's
\* command and its `echo $?` from the terminal before the result was made;
\* no output and no prompt of an earlier, timed-out call stands in for them.
C21_FramingInSync ==
  \A t \in Tasks :
    (ret[t].kind = "cmd" /\ ret[t].op = "execute" /\ ret[t].marker = "matched")
       => LET p == shells[ret[t].sh].process
          IN /\ \A i \in 1..Len(ret[t].stdout) : ret[t].stdout[i][3] = ret[t].call
             /\ p # 0 => /\ \A i \in 1..Len(procs[p].inq) :
                              procs[p].inq[i][2] # ret[t].call
                         /\ procs[p].run # <<>> => procs[p].run[2] # ret[t].call

\* C22: a registered session that is being reset stays registered: while a
\* reset of session s is between its terminate and the end of its start, no
\* step of get_session or of the sweep takes s out of the registry (only a
\* delete_session call may), so the process the reset starts belongs to a
\* registered session.
C22_ResetKeepsSession ==
  [][\A s \in sessions \ sessions' :
        (\E t \in Tasks : /\ loc[t].stage = "reset" /\ loc[t].sh = s
                          /\ pc[t] \in {"spawn", "started"})
           => \E d \in Tasks : /\ pc'[d] # pc[d]
                               /\ "delete" \in {loc[d].op, loc'[d].op, ret'[d].op}
    ]_vars

\* C23: the sweep never evicts a session while one of its commands is in
\* flight: a step of the sweep that takes a session with a live process out
\* of the registry finds no execute call being driven on that session's
\* shell, however long the command has been running.
C23_NoEvictionInFlight ==
  [][\A s \in sessions \ sessions' :
        (pc'[Sweeper] # pc[Sweeper] \/ loc'[Sweeper] # loc[Sweeper]) /\ is_alive(s)
           => ~ \E t \in Tasks : Driving(t) /\ loc[t].sh = s /\ loc[t].op = "execute"
    ]_vars

\* C24: a session owns at most one live shell process and never drops a live
\* one: every spawned process that is alive is the one a shell object
\* references, or is still in the hands of the start that spawned it (its
\* assignment to come); no live process is left that nothing references.
C24_NoDroppedProcess ==
  \A p \in 1..Len(procs) :
     procs[p].alive
        => \/ \E s \in 1..Len(shells) : shells[s].process = p
           \/ \E t \in Tasks : pc[t] \in {"started", "w_create"} /\ loc[t].proc = p

\* C25: in default-session mode no spawned process is left alive that is not
\* the global shell's: every live process is the process of the shell that
\* global_shell names, or is still in the hands of the start that spawned it
\* (its assignment to come).
C25_OneGlobalShell ==
  \A p \in 1..Len(procs) :
     procs[p].alive
        => \/ global_shell # 0 /\ shells[global_shell].process = p
           \/ \E t \in Tasks : pc[t] = "started" /\ loc[t].proc = p

\* C26: an execute that is in flight when its session is terminated ends as
\* an error: when the worker thread of an execute call finishes on a shell
\* whose process was taken away during the call (terminate has cleared the
\* handle, or a reset has replaced it), what it hands back is exit code -1,
\* which the call returns as a result of status "error".
C26_TerminatedIsError ==
  [][\A t \in Tasks :
       (/\ pc[t] \in {"x_expect", "x_rc_expect"} /\ pc'[t] = "x_return"
        /\ loc[t].op = "execute"
        /\ shells[loc[t].sh].process = 0 \/ loc[t].sh \in hist.fresh)
          => loc'[t].code = -1 /\ StatusOf(loc'[t].code) = "error"
    ]_vars

\* C27: the registry lock is never held across a blocking operation on a
\* session, so a slow termination in one session blocks no other: while the
\* worker thread of a terminate is running for a store.delete, no store.get
\* for another session and no store.count is waiting for the lock that the
\* store.delete holds.
C27_LockOnlyForMap ==
  \A t \in All :
     (pc[t] \in {"t_send", "t_final"} /\ loc[t].stage \in {"delete", "shutdown"} /\ lock)
        => ~ \E u \in Tasks : \/ pc[u] = "w_get" /\ loc[u].sh # loc[t].sh
                              \/ pc[u] = "w_count"

\* C28: every execute call that completes with a result (success, non-zero
\* exit, timeout, death of the process, internal error) leaves the session's
\* last_activity at the time of its completion.
C28_ActivityOnCompletion ==
  [][\A t \in Tasks :
       (/\ pc[t] = "x_return" /\ pc'[t] = "idle"
        /\ loc[t].op = "execute" /\ ret'[t].kind = "cmd")
          => shells'[loc[t].sh].last_activity = now
    ]_vars

\* ---- start that fails: _spawn_shell raises on the worker thread.  Either
\* pexpect.spawn cannot launch the shell (no child), or the child runs but
\* expect(self.prompt, timeout=5) ends without the marker: by EOF (the child
\* has exited) or by TIMEOUT (the child is still running).  _spawn_shell has no
\* handler, so the child it spawned is left as it is.
SpawnFail(t) ==
  /\ pc[t] = "spawn"
  /\ \/ /\ loc' = [loc EXCEPT ![t].err = "launch"]
        /\ UNCHANGED procs
     \/ /\ Len(procs) < MaxProcs
        /\ \E a \in BOOLEAN :
              /\ procs' = Append(procs, [NewProc EXCEPT !.alive = a])
              /\ loc' = [loc EXCEPT ![t].proc = Len(procs) + 1,
                                    ![t].err = IF a THEN "timeout" ELSE "eof"]
  /\ pc' = [pc EXCEPT ![t] = "start_failed"]
  /\ UNCHANGED <<sessions, lock, waiters, global_shell, shells, now, ret, ops, hist>>
  /\ UNCHANGED cleanup

\* the exception leaves start (the assignment of line 55 never happens), and
\* with it reset, create_session (before store.create) or ensure_shell
StartFailed(t) ==
  /\ pc[t] = "start_failed"
  /\ ret' = [ret EXCEPT ![t] = [Raised(loc[t].op, loc[t].sh, "start")
                                  EXCEPT !.from = loc[t].err]]
  /\ pc' = [pc EXCEPT ![t] = "idle"]
  /\ loc' = [loc EXCEPT ![t] = NoLoc]
  /\ UNCHANGED <<sessions, lock, waiters, global_shell, shells, procs, now, ops, hist>>
  /\ UNCHANGED cleanup

\* ---- create_session and reset_session by one client, with starts that may
\* fail, on a registry that is empty at first
InitStart == InitCreate
NextStart ==
  \/ \E p \in 1..MaxProcs : ShellRun(p)
  \/ \E t \in OneTask :
        \/ CreateSession(t)
        \/ SpawnThread(t) \/ StartDone(t)
        \/ SpawnFail(t) \/ StartFailed(t)
        \/ TermSend(t) \/ TermFinal(t) \/ TermDone(t)
        \/ \E s \in 1..Len(shells) : HandleCall(t, "reset", s, "cd")
SpecStart == InitStart /\ [][NextStart]_vars

\* C29: when start fails, the failure is surfaced to the caller (the call
\* raises), the session is left not alive, the child that the failed start
\* spawned, if any, is not running, and a create_session that fails this way
\* leaves the registry as it was, without the new session.
C29_StartFailure ==
  [][\A t \in Tasks :
       (pc[t] = "start_failed" /\ pc'[t] = "idle")
          => /\ ret'[t].kind = "raised"
             /\ ~Alive(shells', loc[t].sh)
             /\ loc[t].proc # 0 => ~procs'[loc[t].proc].alive
             /\ loc[t].stage = "create"
                   => sessions' = sessions /\ loc[t].sh \notin sessions'
    ]_vars

\* ---- every registry operation and the engine together, under the
\* scheduling of the event loop: a client task, the lifespan's task (its
\* shutdown), the cleanup task, two registered sessions that have
\* been idle for longer than the timeout since the last sweep
LiveOps == 2
InitLive ==
  /\ sessions = {1, 2}
  /\ lock = FALSE
  /\ waiters = <<>>
  /\ global_shell = 0
  /\ shells = <<[process |-> 1, last_activity |-> 0], [process |-> 2, last_activity |-> 0]>>
  /\ procs = <<NewProc, NewProc>>
  /\ now = session_timeout + 1
  /\ pc = [t \in Tasks \cup {Sweeper} |-> IF t \in Tasks THEN "idle" ELSE "sleep"]
  /\ loc = [t \in Tasks \cup {Sweeper} |-> NoLoc]
  /\ ret = [t \in Tasks \cup {Sweeper} |-> NoRet]
  /\ ops = LiveOps
  /\ hist = [cd |-> [s \in 1..MaxShells |-> <<>>], returned |-> {}, fresh |-> {}]
  /\ cleanup = [task |-> 1, live |-> 1]

\* what the event loop and the thread pool do for task t once it is ready:
\* the worker thread's next pexpect call, the resumption after an await, the
\* grant of the lock to the first waiter
Resume(t) ==
  \/ SpawnThread(t) \/ StartDone(t)
  \/ XSend(t) \/ XExpect(t) \/ XRcSend(t) \/ XRcExpect(t) \/ XReturn(t)
  \/ TermSend(t) \/ TermFinal(t) \/ TermDone(t) \/ TermRaise(t)
  \/ CountWoken(t) \/ CreateWoken(t) \/ GetWoken(t) \/ DeleteWoken(t)
  \/ StopDone(t) \/ ShutdownWoken(t)
  \/ t = Sweeper /\ SweepWoken

NextLive ==
  \/ \E p \in 1..MaxProcs : ShellRun(p)
  \/ \E t \in Tasks \cup {Sweeper} : Resume(t)
  \/ \E t \in OneTask :
        \/ CreateSession(t)
        \/ \E s \in 1..Len(shells) : DeleteSession(t, s)
        \/ \E s \in 1..Len(shells), op \in {"execute", "reset"} :
              HandleCall(t, op, s, "cd")
  \/ \E t \in Tasks \ OneTask : Shutdown(t)
  \/ SweepStart

\* the event loop runs every ready task and the pool every worker thread
Fairness == \A t \in Tasks \cup {Sweeper} : WF_vars(Resume(t))
SpecLive == InitLive /\ [][NextLive]_vars /\ Fairness

LockWaits == {"w_get", "w_delete", "w_count", "w_create", "w_ids", "sw_get", "sw_delete",
              "sd_ids", "sd_delete"}
InExecute == {"x_send", "x_expect", "x_rc_send", "x_rc_expect", "x_return"}

\* C30: no deadlock under fair scheduling: every execute that is in flight
\* eventually returns, every operation that waits for the registry lock
\* eventually gets past its wait, and a lock that is held is eventually
\* released.
C30_NoDeadlock ==
  /\ \A t \in Tasks : (pc[t] \in InExecute) ~> (pc[t] = "idle" /\ ret[t].kind \in {"cmd", "cwd"})
  /\ \A t \in All : (pc[t] \in LockWaits) ~> (pc[t] \notin LockWaits)
  /\ lock ~> ~lock

\* an execute call has returned, and now a store.delete of the sweep holds
\* the lock while its terminate runs and a client waits for the lock behind it
C30_Witness ==
  /\ hist.returned # {}
  /\ lock /\ pc[Sweeper] \in {"t_send", "t_final"} /\ loc[Sweeper].stage = "delete"
  /\ \E t \in Tasks : pc[t] \in LockWaits
====
